---- MODULE Spec2Model ----
(***************************************************************************)
(* The APEL client (bin/client.py): one run of main(), which calls         *)
(* run_client (configuration, store connection, spec updater, joiner,      *)
(* summariser, unloader) and then run_ssm (broker resolution, Ssm2         *)
(* session).  The republish test (test/test_republish.py) drives the       *)
(* store's load_records and is modelled by the specification SpecRepublish.*)
(*                                                                         *)
(* Configuration files are inputs: the value of an option is chosen at the *)
(* step that first depends on it and kept under "ccp" / "scp" in the frame *)
(* of the function that was handed the configuration.  The collaborators (ApelDb, DbUnloader, fetch_specint,*)
(* StompBrokerGetter, Ssm2) are not part of bin/client.py: each call       *)
(* returns or raises one of the outcomes its caller handles or lets        *)
(* propagate, chosen nondeterministically.                                 *)
(***************************************************************************)
EXTENDS Integers, Sequences, FiniteSets, TLC

VARIABLES
    pc,            \* position of the process in main / run_client / run_ssm
    exit_status,   \* None while running, Some(n) once the process has ended
    raised,        \* the exception that ended the process ("" if none)
    log,           \* messages handed to the 'client' logger, in order
    calls,         \* calls made on the collaborators, in order
    frame,         \* run_client's bound local variables, its parameter ccp
                   \* (the client options fixed so far) among them
    ssm_frame,     \* run_ssm's bound local variables, its parameter scp
                   \* (the sender options fixed so far) among them
    session,       \* state of the Ssm2 transport session
    VCloudRecords, \* rows of the store's cloud record view
    loaded         \* per (identity, period): the records handed to
                   \* load_records so far, in order

vars == <<pc, exit_status, raised, log, calls, frame, ssm_frame, session,
          VCloudRecords, loaded>>

clientVars == <<pc, exit_status, raised, log, calls, frame, ssm_frame, session>>

storeVars == <<VCloudRecords, loaded>>

----------------------------------------------------------------------------
(* Bounds of the model. *)

\* most spec values fetch_specint returns
MaxSpecValues == 2
\* most messages one unload writes
MaxMsgs == 1
\* most records one unload writes
MaxRecs == 1
\* most endpoints the broker lookup returns
MaxBrokers == 2
\* most records the republish test loads
MaxLoads == 4

----------------------------------------------------------------------------
(* Python values. *)

None == << >>
Some(x) == <<x>>

\* A frame: the bound local variables, by name.
EmptyFrame == [n \in {} |-> None]
Bind(f, g) == g @@ f
IsBound(f, n) == n \in DOMAIN f

\* A log entry: the message and the numbers formatted into it.
Msg(m) == [msg |-> m, args |-> << >>]
MsgN(m, a, b) == [msg |-> m, args |-> <<a, b>>]
say(l, m) == Append(l, Msg(m))
Logged(m) == \E i \in 1..Len(log) : log[i].msg = m

\* A call on a collaborator was made.
Called(c) == \E i \in 1..Len(calls) : calls[i] = c
Count(c) == Cardinality({i \in 1..Len(calls) : calls[i] = c})

----------------------------------------------------------------------------
(* ConfigParser. *)

\* get() of an option that the section lacks raises NoOptionError
Absent == "<no option>"
\* get() in a section that the file lacks raises NoSectionError
NoSection == "<no section>"

\* raw text of a boolean option; "maybe" is not a boolean
BoolOpt == {Absent, "true", "false", "maybe"}
IsBool(v) == v \in {"true", "false"}
getboolean(v) == (v = "true")

\* raw text of a port option
PortOpt == {Absent, "61613", "stomp"}
IsInt(v) == v \in {"61613", "2170", "3306"}
int(v) == CASE v = "61613" -> 61613
            [] v = "2170" -> 2170
            [] v = "3306" -> 3306
            [] OTHER -> 0

\* raw text of a comma separated list option, as a sequence of characters
VoStrings == { <<"a", ",", " ", "b">>, << >> }
NoVoOption == [present |-> FALSE, text |-> << >>]
VoOpt == {NoVoOption} \cup {[present |-> TRUE, text |-> s] : s \in VoStrings}

\* str.split(','): the pieces between commas, at least one
RECURSIVE split(_)
split(s) ==
    IF \A i \in 1..Len(s) : s[i] # ","
    THEN <<s>>
    ELSE LET k == CHOOSE i \in 1..Len(s) :
                     s[i] = "," /\ \A j \in 1..(i - 1) : s[j] # ","
         IN <<SubSeq(s, 1, k - 1)>> \o split(SubSeq(s, k + 1, Len(s)))

\* str.strip(): without leading and trailing blanks
RECURSIVE strip(_)
strip(s) ==
    IF s = << >> THEN s
    ELSE IF Head(s) = " " THEN strip(Tail(s))
    ELSE IF s[Len(s)] = " " THEN strip(SubSeq(s, 1, Len(s) - 1))
    ELSE s

\* [vo.strip() for vo in text.split(',')]
vo_list(text) == LET parts == split(text)
                 IN [i \in 1..Len(parts) |-> strip(parts[i])]

----------------------------------------------------------------------------
(* How the process ends. *)

Terminated == pc \in {"finished", "exited"}

\* the values an input is drawn from when the step reads it, else none
Unread == "<unread>"
When(read, values) == IF read THEN values ELSE {Unread}

\* no option fixed
NoOptions == [o \in {} |-> ""]

\* sys.exit(1)
sys_exit(l) ==
    /\ pc' = "exited"
    /\ exit_status' = Some(1)
    /\ raised' = "SystemExit"
    /\ log' = l
    /\ frame' = EmptyFrame
    /\ ssm_frame' = EmptyFrame

\* an exception no handler catches: the interpreter ends with status 1
uncaught(exc, l) ==
    /\ pc' = "exited"
    /\ exit_status' = Some(1)
    /\ raised' = exc
    /\ log' = l
    /\ frame' = EmptyFrame
    /\ ssm_frame' = EmptyFrame

\* the step goes on at p with log l and run_client frame f
goto(p, l, f) ==
    /\ pc' = p
    /\ log' = l
    /\ frame' = f
    /\ UNCHANGED <<exit_status, raised, ssm_frame>>

----------------------------------------------------------------------------
(* main: logging set-up. *)

ConfigureLogging ==
    /\ pc = "main_logging"
    /\ \E ok \in BOOLEAN :
         IF ok THEN goto("rc_flags", log, Bind(EmptyFrame, "ccp" :> NoOptions))
         ELSE sys_exit(log)
    /\ UNCHANGED <<calls, session, storeVars>>

----------------------------------------------------------------------------
(* run_client: configuration. *)

\* except (ClientConfigException, ConfigParser.Error): log.error, sys.exit(1)
config_error_continues ==
    goto("rc_connect", say(log, "Error in configuration file"), frame)
config_error == sys_exit(say(log, "Error in configuration file"))

ReadEnabledFlags ==
    /\ pc = "rc_flags"
    /\ \E su \in BoolOpt, je \in BoolOpt, site \in {Absent, "", "SITE"} :
         IF su = Absent THEN config_error
         ELSE IF ~IsBool(su) THEN uncaught("ValueError", log)
         ELSE IF je = Absent THEN config_error
         ELSE IF ~IsBool(je) THEN uncaught("ValueError", log)
         ELSE LET f == Bind(frame,
                            "spec_updater_enabled" :> getboolean(su)
                            @@ "joiner_enabled" :> getboolean(je))
              IN IF getboolean(su) \/ getboolean(je)
                 THEN IF site \in {Absent, ""} THEN config_error
                      ELSE goto("rc_spec", log, Bind(f, "site_name" :> site))
                 ELSE goto("rc_spec", log, f)
    /\ UNCHANGED <<calls, session, storeVars>>

ReadSpecOptions ==
    /\ pc = "rc_spec"
    /\ \E host \in {Absent, "bdii.example.org"}, port \in {Absent, "2170", "ldap"},
          lj \in BoolOpt, lrms \in {Absent, "", "ce.example.org"},
          slt \in {Absent, "si2k"}, sl \in {Absent, "1000.0", "fast"} :
         LET f1 == IF frame["spec_updater_enabled"]
                   THEN Bind(frame, "ldap_host" :> host @@ "ldap_port" :> int(port))
                   ELSE frame
             f2 == Bind(f1, "local_jobs" :> getboolean(lj))
         IN IF frame["spec_updater_enabled"] /\ (host = Absent \/ port = Absent)
            THEN config_error
            ELSE IF frame["spec_updater_enabled"] /\ ~IsInt(port)
            THEN uncaught("ValueError", log)
            ELSE IF lj = Absent THEN config_error
            ELSE IF ~IsBool(lj) THEN uncaught("ValueError", log)
            ELSE IF ~getboolean(lj) THEN goto("rc_unloader", log, f2)
            ELSE IF lrms \in {Absent, ""} \/ slt = Absent \/ sl = Absent
            THEN config_error
            ELSE IF sl = "fast" THEN uncaught("ValueError", log)
            ELSE goto("rc_unloader", log,
                      Bind(f2, "hostname" :> lrms @@ "slt" :> slt @@ "sl" :> sl))
    /\ UNCHANGED <<calls, session, storeVars>>

\* the frame after the include_vos / exclude_vos options were read: the
\* exclude option is read only in the handler of a missing include option
vo_filters_both(f, inc, exc) ==
    LET fi == IF inc.present
              THEN Bind(f, "include" :> inc.text
                           @@ "include_vos" :> Some(vo_list(inc.text)))
              ELSE f
    IN IF exc.present
       THEN Bind(fi, "exclude" :> exc.text
                     @@ "exclude_vos" :> Some(vo_list(exc.text)))
       ELSE fi
vo_filters(f, inc, exc) ==
    IF inc.present
    THEN Bind(f, "include" :> inc.text
                 @@ "include_vos" :> Some(vo_list(inc.text)))
    ELSE IF exc.present
    THEN Bind(f, "exclude" :> exc.text
                 @@ "exclude_vos" :> Some(vo_list(exc.text)))
    ELSE f

ReadUnloaderOptions ==
    /\ pc = "rc_unloader"
    /\ \E ue \in BoolOpt, dir \in {Absent, "/var/spool/apel"},
          ss \in BoolOpt, ur \in BoolOpt, inc \in VoOpt, exc \in VoOpt :
         LET f0 == Bind(frame, "unloader_enabled" :> getboolean(ue)
                               @@ "include_vos" :> None
                               @@ "exclude_vos" :> None)
             table == IF getboolean(ss) THEN "VSuperSummaries" ELSE "VJobRecords"
             f1 == Bind(f0, "unload_dir" :> dir @@ "table_name" :> table
                            @@ "send_ur" :> getboolean(ur))
             f2 == vo_filters(f1, inc, exc)
         IN IF ue = Absent THEN config_error
            ELSE IF ~IsBool(ue) THEN uncaught("ValueError", log)
            ELSE IF ~getboolean(ue)
            THEN goto("rc_connect", log, f0)
            ELSE IF dir = Absent \/ ss = Absent THEN config_error
            ELSE IF ~IsBool(ss) THEN uncaught("ValueError", log)
            ELSE IF ur = Absent THEN config_error
            ELSE IF ~IsBool(ur) THEN uncaught("ValueError", log)
            ELSE goto("rc_connect", log,
                      Bind(f2, "ccp" :> ("unloader.include_vos" :> inc
                                         @@ "unloader.exclude_vos" :> exc)))
    /\ UNCHANGED <<calls, session, storeVars>>

----------------------------------------------------------------------------
(* run_client: store connection. *)

LOG_BREAK == "====================="

ConnectDb ==
    /\ pc = "rc_connect"
    /\ LET l0 == say(log, "Starting apel client version")
           l1 == say(l0, "Connecting to the database ... ")
           failed(l, err) == sys_exit(say(say(l, err), LOG_BREAK))
       IN \E options \in {"complete", "missing", "bad port"},
             outcome \in {"ok", "ApelDbException"} :
            IF options = "missing"
            THEN /\ failed(l0, "Error during connecting to database: No option")
                 /\ calls' = calls
            ELSE IF options = "bad port"
            THEN uncaught("ValueError", l0) /\ calls' = calls
            ELSE IF outcome = "ok"
            THEN /\ goto("rc_spec_updater", say(l1, "Connected."),
                         Bind(frame, "db" :> "ApelDb"))
                 /\ calls' = calls \o <<"ApelDb", "test_connection">>
            ELSE /\ failed(l1, "Error during connecting to database: ApelDbException")
                 /\ calls' = calls \o <<"ApelDb", "test_connection">>
    /\ UNCHANGED <<session, storeVars>>

----------------------------------------------------------------------------
(* run_client: spec updater, joiner, summariser. *)

Repeat(c, n) == [i \in 1..n |-> c]

\* except ldap.SERVER_DOWN / except ldap.NO_SUCH_OBJECT: log.warn twice, on
\* to the joiner
spec_updater_failed_propagates(l, exc) ==
    uncaught(exc, IF exc = "SERVER_DOWN"
                  THEN say(l, "Failed to fetch spec info")
                  ELSE say(l, "Found no spec values in BDII"))
spec_updater_failed(l, exc) ==
    goto("rc_joiner",
         IF exc = "SERVER_DOWN"
         THEN say(say(l, "Failed to fetch spec info"), "Spec updater failed.")
         ELSE say(say(l, "Found no spec values in BDII"),
                  "Is the site name correct?"),
         frame)

SpecUpdater ==
    /\ pc = "rc_spec_updater"
    /\ IF ~frame["spec_updater_enabled"]
       THEN goto("rc_joiner", log, frame) /\ calls' = calls
       ELSE LET l0 == say(log, "Starting spec updater.")
                c0 == Append(calls, "fetch_specint")
            IN \E outcome \in {"ok", "SERVER_DOWN", "NO_SUCH_OBJECT",
                                "LDAPError", "ApelDbException"},
                  n \in 0..MaxSpecValues, k \in 1..MaxSpecValues :
                 CASE outcome = "ok" ->
                        /\ goto("rc_joiner", say(l0, "Spec updater finished."),
                                Bind(frame, "spec_values" :> n))
                        /\ calls' = c0 \o Repeat("update_spec", n)
                   [] outcome = "ApelDbException" ->
                        \* the k-th update_spec of n raises
                        /\ k <= n
                        /\ uncaught("ApelDbException", l0)
                        /\ calls' = c0 \o Repeat("update_spec", k)
                   [] outcome \in {"SERVER_DOWN", "NO_SUCH_OBJECT"} ->
                        /\ spec_updater_failed(l0, outcome)
                        /\ calls' = c0
                   [] outcome = "LDAPError" ->
                        /\ uncaught("LDAPError", l0)
                        /\ calls' = c0
    /\ UNCHANGED <<session, storeVars>>

Joiner ==
    /\ pc = "rc_joiner"
    /\ IF ~frame["joiner_enabled"]
       THEN goto("rc_summarise", log, frame) /\ calls' = calls
       ELSE LET l0 == say(log, "Starting joiner.")
                l1 == IF frame["local_jobs"]
                      THEN say(say(say(l0,
                               "Updating benchmark information for local jobs:"),
                               "site, hostname, spec type, spec value"),
                               "Creating local jobs.")
                      ELSE l0
                local == IF frame["local_jobs"]
                         THEN <<"update_spec", "create_local_jobs">>
                         ELSE << >>
            IN \E failing \in 0..(Len(local) + 1) :
                 \* failing = 0: every call returns; else that call raises
                 IF failing = 0
                 THEN /\ goto("rc_summarise", say(l1, "Joining complete."), frame)
                      /\ calls' = calls \o local \o <<"join_records">>
                 ELSE /\ uncaught("ApelDbException",
                                  IF failing = 1 /\ local # << >>
                                  THEN say(say(l0,
                                       "Updating benchmark information for local jobs:"),
                                       "site, hostname, spec type, spec value")
                                  ELSE l1)
                      /\ calls' = calls \o
                                  SubSeq(local \o <<"join_records">>, 1, failing)
    /\ UNCHANGED <<session, storeVars>>

\* db.summarise_jobs() between 'Starting summariser.' and 'Summarising
\* complete.', under no condition
Summarise_skipped ==
    /\ pc = "rc_summarise"
    /\ calls' = calls
    /\ goto("rc_unloader_start", log, frame)
    /\ UNCHANGED <<session, storeVars>>
Summarise ==
    /\ pc = "rc_summarise"
    /\ calls' = Append(calls, "summarise_jobs")
    /\ \E outcome \in {"ok", "ApelDbException"} :
         IF outcome = "ok"
         THEN goto("rc_unloader_start",
                   say(say(log, "Starting summariser."), "Summarising complete."),
                   frame)
         ELSE uncaught("ApelDbException", say(log, "Starting summariser."))
    /\ UNCHANGED <<session, storeVars>>

----------------------------------------------------------------------------
(* run_client: unloader. *)

\* (msgs, recs) an unload returns: no message without a record
Counts == {c \in (0..MaxMsgs) \X (0..MaxRecs) :
             /\ (c[1] = 0) <=> (c[2] = 0)
             /\ c[1] <= c[2]}

\* run_client returns to main: its frame is gone
return_to_main_starts_ssm(l) ==
    /\ pc' = "ssm_brokers"
    /\ log' = l
    /\ frame' = EmptyFrame
    /\ ssm_frame' = Bind(EmptyFrame, "scp" :> NoOptions)
    /\ UNCHANGED <<exit_status, raised>>
return_to_main(l) ==
    /\ pc' = "main_ssm_enabled"
    /\ log' = l
    /\ frame' = EmptyFrame
    /\ UNCHANGED <<exit_status, raised, ssm_frame>>

StartUnloader ==
    /\ pc = "rc_unloader_start"
    /\ IF ~frame["unloader_enabled"]
       THEN return_to_main(log) /\ calls' = calls
       ELSE LET l0 == say(say(log, "Starting unloader."), "Will unload from table")
            IN \E interval \in {Absent, "latest", "gap", "all", "hourly"},
                  wd \in BoolOpt :
                 IF interval = Absent \/ wd = Absent
                 THEN uncaught("NoOptionError", l0) /\ calls' = calls
                 ELSE IF ~IsBool(wd)
                 THEN uncaught("ValueError", l0) /\ calls' = calls
                 ELSE /\ goto("rc_unload", l0,
                              Bind(frame,
                                   "interval" :> interval
                                   @@ "withhold_dns" :> getboolean(wd)
                                   @@ "unloader" :>
                                        [dir |-> frame["unload_dir"],
                                         include_vos |-> frame["include_vos"],
                                         exclude_vos |-> frame["exclude_vos"],
                                         local_jobs |-> frame["local_jobs"],
                                         withhold_dns |-> getboolean(wd)]))
                      /\ calls' = Append(calls, "DbUnloader")
    /\ UNCHANGED <<session, storeVars>>

\* the unload method the interval selects, if any
unload_method(interval) ==
    CASE interval = "latest" -> Some("unload_latest")
      [] interval = "gap" -> Some("unload_gap")
      [] interval = "all" -> Some("unload_all")
      [] OTHER -> None

\* log.info('Unloaded %d records in %d messages.' % (recs, msgs))
log_unloaded(l, f) ==
    IF IsBound(f, "recs") /\ IsBound(f, "msgs")
    THEN goto("rc_sync", Append(l, MsgN("Unloaded records in messages.",
                                        f["recs"], f["msgs"])), f)
    ELSE uncaught("UnboundLocalError", l)

\* except KeyError / except ApelDbException: log.warn, on to the sync unload
detail_failed_propagates(l, exc) == uncaught(exc, l)
detail_failed_skips_sync(l, exc) ==
    return_to_main(say(l, IF exc = "KeyError"
                          THEN "Invalid table name, omitting"
                          ELSE "Failed to unload records successfully"))
detail_failed_reports_counts(l, exc) ==
    goto("rc_sync",
         Append(say(l, IF exc = "KeyError"
                       THEN "Invalid table name, omitting"
                       ELSE "Failed to unload records successfully"),
                MsgN("Unloaded records in messages.", 0, 0)),
         frame)
detail_failed_resummarises(l, exc) ==
    goto("rc_summarise",
         say(l, IF exc = "KeyError"
                THEN "Invalid table name, omitting"
                ELSE "Failed to unload records successfully"),
         frame)
detail_failed(l, exc) ==
    goto("rc_sync",
         say(l, IF exc = "KeyError"
                THEN "Invalid table name, omitting"
                ELSE "Failed to unload records successfully"),
         frame)

DetailUnload ==
    /\ pc = "rc_unload"
    /\ LET method == unload_method(frame["interval"])
       IN IF method = None
          THEN /\ log_unloaded(say(say(log, "Unrecognised interval"),
                                   "Will not start unloader."), frame)
               /\ calls' = calls
          ELSE \E gap \in {"both", "missing"},
                  outcome \in {"ok", "KeyError", "ApelDbException"},
                  c \in Counts :
                 IF frame["interval"] = "gap" /\ gap = "missing"
                 THEN uncaught("NoOptionError", log) /\ calls' = calls
                 ELSE /\ calls' = Append(calls, method[1])
                      /\ CASE outcome = "ok" ->
                                log_unloaded(log, Bind(frame, "msgs" :> c[1]
                                                              @@ "recs" :> c[2]))
                           [] OTHER -> detail_failed(log, outcome)
    /\ UNCHANGED <<session, storeVars>>

SyncUnload ==
    /\ pc = "rc_sync"
    /\ calls' = Append(calls, "unload_sync")
    /\ \E outcome \in {"ok", "ApelDbException"}, c \in Counts :
         IF outcome = "ok"
         THEN return_to_main(
                  say(Append(log, MsgN("Unloaded sync records in messages.",
                                       c[2], c[1])),
                      "Unloading complete."))
         ELSE uncaught("ApelDbException", log)
    /\ UNCHANGED <<session, storeVars>>

----------------------------------------------------------------------------
(* main: after run_client. *)

CheckSsmEnabled ==
    /\ pc = "main_ssm_enabled"
    /\ \E enabled \in BoolOpt :
         IF enabled = Absent THEN uncaught("NoOptionError", log)
         ELSE IF ~IsBool(enabled) THEN uncaught("ValueError", log)
         ELSE /\ pc' = IF getboolean(enabled) THEN "ssm_brokers" ELSE "main_finish"
              /\ log' = IF getboolean(enabled) THEN say(log, "Starting SSM.") ELSE log
              /\ ssm_frame' = IF getboolean(enabled)
                               THEN Bind(EmptyFrame, "scp" :> NoOptions)
                               ELSE ssm_frame
              /\ UNCHANGED <<exit_status, raised, frame>>
    /\ UNCHANGED <<calls, session, storeVars>>

SsmStopped ==
    /\ pc = "main_ssm_stopped"
    /\ pc' = "main_finish"
    /\ log' = say(log, "SSM stopped.")
    /\ UNCHANGED <<exit_status, raised, calls, frame, ssm_frame, session,
                   storeVars>>

ClientFinished ==
    /\ pc = "main_finish"
    /\ pc' = "finished"
    /\ log' = say(log, "Client finished")
    /\ exit_status' = Some(0)
    /\ UNCHANGED <<raised, calls, frame, ssm_frame, session, storeVars>>

----------------------------------------------------------------------------
(* run_ssm: broker resolution. *)

\* the step goes on at p with log l and run_ssm frame f
ssm_goto(p, l, f) ==
    /\ pc' = p
    /\ log' = l
    /\ ssm_frame' = f
    /\ UNCHANGED <<exit_status, raised, frame>>

\* run_ssm returns to main: its frame is gone
ssm_return(l) ==
    /\ pc' = "main_ssm_stopped"
    /\ log' = l
    /\ ssm_frame' = EmptyFrame
    /\ UNCHANGED <<exit_status, raised, frame>>

\* the sender options fixed so far
scp == ssm_frame["scp"]
\* the value of an option: as fixed before, else the one offered now
option(name, offered) == IF name \in DOMAIN scp THEN scp[name] ELSE offered
\* the frame with more options fixed
Fix(f, options) == Bind(f, "scp" :> (options @@ f["scp"]))

\* the n endpoints a lookup returns, in the directory's order
BdiiHost(i) == CASE i = 1 -> "broker-1.example.org"
                 [] i = 2 -> "broker-2.example.org"
                 [] i = 3 -> "broker-3.example.org"
                 [] OTHER -> "broker-n.example.org"
get_broker_hosts_and_ports(n) == [i \in 1..n |-> <<BdiiHost(i), 61613>>]

\* brokers = [(host, int(port))]
static_brokers_text_port(host, port) == << <<host, 0>> >>
static_brokers(host, port) == << <<host, int(port)>> >>

\* the brokers run_ssm goes on with after a lookup that returned found
lookup_brokers(found) == found

\* except ldap.LDAPError: log.error twice, return
ldap_failed_exits(l) ==
    sys_exit(say(say(l, "Failed to retrieve brokers from LDAP"),
                 "Messages were not sent."))
ldap_failed(l) ==
    ssm_return(say(say(l, "Failed to retrieve brokers from LDAP"),
                   "Messages were not sent."))

\* except ConfigParser.NoOptionError: the single broker of [broker] host, port
StaticBroker(l, seen, host, port) ==
    IF host = Absent \/ port = Absent
    THEN \* log.error twice, then log.info() without a message: TypeError
         uncaught("TypeError",
                  say(say(l, "Options incorrectly supplied for either single broker or broker network. Please check configuration."),
                      "System will exit."))
    ELSE IF ~IsInt(port) THEN uncaught("ValueError", l)
    ELSE ssm_goto("ssm_init", l,
                  Bind(Fix(ssm_frame, "broker.host" :> host
                                      @@ "broker.port" :> port @@ seen),
                       "host" :> host @@ "port" :> port
                       @@ "brokers" :> static_brokers(host, port)))

ResolveBrokers ==
    /\ pc = "ssm_brokers"
    /\ \E bdii \in {NoSection, Absent, "ldap://bdii.example.org:2170"} :
       \E ssl \in When(bdii \notin {NoSection, Absent}, BoolOpt) :
       \E network \in When(IsBool(ssl), {Absent, "PROD"}) :
       \E host \in When(Absent \in {bdii, ssl, network}, {Absent, "msg.example.org"}) :
       \E port \in When(Absent \in {bdii, ssl, network} /\ host # Absent, PortOpt) :
       \E outcome \in When(network = "PROD", {"ok", "LDAPError"}) :
       \E n \in IF outcome = "ok" THEN 0..MaxBrokers ELSE {0} :
         LET sB == "broker.bdii" :> bdii
             sS == sB @@ "broker.use_ssl" :> ssl
             sN == sS @@ "broker.network" :> network
         IN IF bdii = NoSection
            THEN uncaught("NoSectionError", log) /\ calls' = calls
            ELSE IF bdii = Absent
            THEN StaticBroker(log, sB, host, port) /\ calls' = calls
            ELSE IF ssl = Absent
            THEN StaticBroker(log, sS, host, port) /\ calls' = calls
            ELSE IF ~IsBool(ssl)
            THEN uncaught("ValueError", log) /\ calls' = calls
            ELSE IF network = Absent
            THEN StaticBroker(log, sN, host, port) /\ calls' = calls
            ELSE /\ calls' = Append(calls, "get_broker_hosts_and_ports")
                 /\ IF outcome = "LDAPError"
                    THEN ldap_failed(log)
                    ELSE LET found == get_broker_hosts_and_ports(n)
                         IN ssm_goto("ssm_init",
                                Append(log, [msg |-> "Found brokers.",
                                             args |-> <<Len(found)>>]),
                                Bind(Fix(ssm_frame, sN),
                                     "use_ssl" :> getboolean(ssl)
                                     @@ "brokers" :> lookup_brokers(found)))
    /\ UNCHANGED <<session, storeVars>>

----------------------------------------------------------------------------
(* run_ssm: the Ssm2 session. *)

\* except Ssm2Exception: log.error twice, return
init_failed_exits(l, why) ==
    sys_exit(say(say(l, why), "Messages have not been sent."))
init_failed(l, why) ==
    ssm_return(say(say(l, why), "Messages have not been sent."))

\* the Ssm2Exception the destination option raises, if any
destination_error_blank_accepted(dest) ==
    IF dest = Absent
    THEN Some("Failed to initialise SSM: No option 'destination' in section: 'messaging'")
    ELSE None
destination_error(dest) ==
    IF dest = Absent
    THEN Some("Failed to initialise SSM: No option 'destination' in section: 'messaging'")
    ELSE IF dest = ""
    THEN Some("Failed to initialise SSM: No destination queue is configured.")
    ELSE None

InitSsm ==
    /\ pc = "ssm_init"
    /\ \E cert \in {NoSection, Absent, "/etc/grid-security/server.pem"} :
       \E isfile \in When(cert \notin {NoSection, Absent}, {"a file", "no file"}) :
       \E dest \in When(cert = Absent \/ isfile = "a file",
                        {NoSection, Absent, "", "/queue/global.accounting"}) :
       \E rest \in When(dest \in {"", "/queue/global.accounting"},
                        {"complete", "missing"}) :
       \E ssl \in When(rest = "complete" /\ "broker.use_ssl" \notin DOMAIN scp,
                       BoolOpt) :
       \E ctor \in When(rest = "complete", {"ok", "Ssm2Exception"}) :
         LET use_ssl == option("broker.use_ssl", ssl)
             l0 == IF cert = Absent
                   THEN say(log, "No server certificate supplied. Will not encrypt messages.")
                   ELSE log
             server_cert == IF cert = Absent THEN None ELSE Some(cert)
         IN IF cert = NoSection
            THEN uncaught("NoSectionError", log)
                 /\ UNCHANGED <<calls, session>>
            ELSE IF cert # Absent /\ isfile = "no file"
            THEN /\ init_failed(log, "Failed to initialise SSM: Server certificate location incorrect.")
                 /\ UNCHANGED <<calls, session>>
            ELSE IF dest = NoSection
            THEN uncaught("NoSectionError", l0)
                 /\ UNCHANGED <<calls, session>>
            ELSE IF destination_error(dest) # None
            THEN /\ init_failed(l0, destination_error(dest)[1])
                 /\ UNCHANGED <<calls, session>>
            ELSE IF rest = "missing"
            THEN \* path, certificate, capath or key: NoOptionError
                 uncaught("NoOptionError", l0)
                 /\ UNCHANGED <<calls, session>>
            ELSE IF use_ssl = Absent
            THEN uncaught("NoOptionError", l0)
                 /\ UNCHANGED <<calls, session>>
            ELSE IF ~IsBool(use_ssl)
            THEN uncaught("ValueError", l0)
                 /\ UNCHANGED <<calls, session>>
            ELSE /\ calls' = Append(calls, "Ssm2")
                 /\ IF ctor = "Ssm2Exception"
                    THEN init_failed(l0, "Failed to initialise SSM: Ssm2Exception")
                         /\ session' = session
                    ELSE /\ ssm_goto("ssm_connect", l0,
                              Bind(Fix(ssm_frame,
                                       "certificates.server_cert" :> cert
                                       @@ "messaging.destination" :> dest
                                       @@ "broker.use_ssl" :> use_ssl),
                                   "server_cert" :> server_cert
                                   @@ "destination" :> dest
                                   @@ "ssm" :> [brokers |-> ssm_frame["brokers"],
                                                dest |-> dest,
                                                use_ssl |-> getboolean(use_ssl),
                                                enc_cert |-> server_cert]))
                         /\ session' = "Unconnected"
    /\ UNCHANGED <<storeVars>>

\* except Ssm2Exception: log.error, return
ssm_failed_retries(l) ==
    ssm_goto("ssm_connect", say(l, "SSM failed to complete successfully"),
             ssm_frame)
ssm_failed(l) == ssm_return(say(l, "SSM failed to complete successfully"))

HandleConnect ==
    /\ pc = "ssm_connect"
    /\ calls' = Append(calls, "handle_connect")
    /\ \/ \E i \in 1..Len(ssm_frame["ssm"].brokers) :
            /\ session' = "Connected"
            /\ ssm_goto("ssm_send", log, ssm_frame)
       \/ /\ session' = session
          /\ ssm_failed(log)
    /\ UNCHANGED <<storeVars>>

SendAll ==
    /\ pc = "ssm_send"
    /\ calls' = Append(calls, "send_all")
    /\ \/ /\ session' = "Sent"
          /\ ssm_goto("ssm_close", log, ssm_frame)
       \/ /\ session' = session
          /\ ssm_failed(log)
    /\ UNCHANGED <<storeVars>>

CloseConnection ==
    /\ pc = "ssm_close"
    /\ calls' = Append(calls, "close_connection")
    /\ \/ /\ session' = "Closed"
          /\ ssm_return(say(say(log, "SSM run has finished."),
                            "Sending SSM has shut down."))
       \/ /\ session' = session
          /\ ssm_failed(log)
    /\ UNCHANGED <<storeVars>>

----------------------------------------------------------------------------
(* The store's consolidation of cloud records, as the republish test drives *)
(* it: load_records of one CloudRecord at a time.                           *)

\* "StartTime": datetime.datetime.fromtimestamp(1559818218)
StartTime == 1559818218
\* wall_duration_list
WallDurations == {1582, 158, 851, 200}
VMUUIDs == {"1559818218-Site1-VM12345", "1559818218-Site1-VM67890"}
\* start times of the records: the test's, and one 500 s before the month ends
StartTimes == {StartTime, 1561939200 - 500}

\* the reporting period of a measurement time: its calendar month (UTC)
Month(t) == IF t < 1561939200 THEN <<2019, 6>> ELSE <<2019, 7>>

CloudRecords == [VMUUID : VMUUIDs, SiteName : {"Site1"}, Status : {"started"},
                 StartTime : StartTimes, WallDuration : WallDurations]

MeasurementTime(record) == record.StartTime + record.WallDuration
\* identity (VMUUID + site) and reporting period
Key(record) == <<record.VMUUID, record.SiteName, Month(MeasurementTime(record))>>
Keys == {Key(r) : r \in CloudRecords}

Row(record) == [VMUUID |-> record.VMUUID, SiteName |-> record.SiteName,
                Month |-> Month(MeasurementTime(record)),
                MeasurementTime |-> MeasurementTime(record),
                WallDuration |-> record.WallDuration]
RowKey(row) == <<row.VMUUID, row.SiteName, row.Month>>

\* load_records([record]): the record replaces the row of its key
load_records_keeps_longest(rows, record) ==
    IF \E row \in rows : /\ RowKey(row) = Key(record)
                          /\ row.MeasurementTime >= MeasurementTime(record)
    THEN rows
    ELSE {row \in rows : RowKey(row) # Key(record)} \cup {Row(record)}
load_records(rows, record) ==
    {row \in rows : RowKey(row) # Key(record)} \cup {Row(record)}

Loads == LET n[k \in SUBSET Keys] ==
                 IF k = {} THEN 0
                 ELSE LET x == CHOOSE y \in k : TRUE
                      IN Len(loaded[x]) + n[k \ {x}]
         IN n[Keys]

LoadRecords ==
    /\ Loads < MaxLoads
    /\ \E record \in CloudRecords :
         /\ VCloudRecords' = load_records(VCloudRecords, record)
         /\ loaded' = [loaded EXCEPT ![Key(record)] = Append(@, record)]
    /\ UNCHANGED clientVars

----------------------------------------------------------------------------
(* The client's run. *)

InitClient ==
    /\ pc = "main_logging"
    /\ exit_status = None
    /\ raised = ""
    /\ log = << >>
    /\ calls = << >>
    /\ frame = EmptyFrame
    /\ ssm_frame = EmptyFrame
    /\ session = "none"

InitStore ==
    /\ VCloudRecords = {}
    /\ loaded = [k \in Keys |-> << >>]

Init == InitClient /\ InitStore

Next ==
    \/ ConfigureLogging
    \/ ReadEnabledFlags
    \/ ReadSpecOptions
    \/ ReadUnloaderOptions
    \/ ConnectDb
    \/ SpecUpdater
    \/ Joiner
    \/ Summarise
    \/ StartUnloader
    \/ DetailUnload
    \/ SyncUnload
    \/ CheckSsmEnabled
    \/ ResolveBrokers
    \/ InitSsm
    \/ HandleConnect
    \/ SendAll
    \/ CloseConnection
    \/ SsmStopped
    \/ ClientFinished

Spec == Init /\ [][Next]_vars

\* The republish test: records are loaded one at a time.
NextRepublish == LoadRecords

SpecRepublish == Init /\ [][NextRepublish]_vars

----------------------------------------------------------------------------
(* Properties. *)

InRunSsm == pc \in {"ssm_brokers", "ssm_init", "ssm_connect", "ssm_send", "ssm_close"}
BrokersResolved == pc \in {"ssm_init", "ssm_connect", "ssm_send", "ssm_close"}
RunClientReturned == pc \in {"main_ssm_enabled", "main_ssm_stopped", "main_finish",
                             "finished"} \/ InRunSsm
LastLog == IF log = << >> THEN "" ELSE log[Len(log)].msg
LastCall == IF calls = << >> THEN "" ELSE calls[Len(calls)]

NoDestination == "Failed to initialise SSM: No destination queue is configured."
NoBrokerOptions == "Options incorrectly supplied for either single broker or broker network. Please check configuration."
LdapFailed == "Failed to retrieve brokers from LDAP"
SsmFailed == "SSM failed to complete successfully"
InvalidTable == "Invalid table name, omitting"
UnloadFailed == "Failed to unload records successfully"

\* C1: for every (identity, period) that records were loaded for, the view
\* holds exactly one row, and its MeasurementTime is StartTime + WallDuration
\* of the record loaded last for it, whatever the earlier durations were.
C1_LastLoadedSupersedes ==
    \A k \in Keys :
      loaded[k] # << >> =>
        LET rows == {row \in VCloudRecords : RowKey(row) = k}
            last == loaded[k][Len(loaded[k])]
        IN /\ Cardinality(rows) = 1
           /\ \A row \in rows :
                row.MeasurementTime = last.StartTime + last.WallDuration

\* C1 witness: the test's four records, durations 1582, 158, 851, 200, loaded
\* in that order for one VM and month; the row holds StartTime + 200.
C1_Witness ==
    \E k \in Keys :
      /\ Len(loaded[k]) = 4
      /\ [i \in 1..4 |-> loaded[k][i].WallDuration] = <<1582, 158, 851, 200>>
      /\ \A i \in 1..4 : loaded[k][i].StartTime = StartTime
      /\ \E row \in VCloudRecords :
           RowKey(row) = k /\ row.MeasurementTime = StartTime + 200

C3_CloseAlwaysInvoked ==
    (pc = "main_ssm_stopped" /\ session \in {"Connected", "Sent", "Closed"})
      => Called("close_connection")

\* C4 as claimed: a run that reported an unrecognised interval is not ended
\* by it: it does not end before the sync unload has been executed.
C4_UnrecognisedIntervalNotFatal ==
    Logged("Unrecognised interval") => (pc # "exited" \/ Called("unload_sync"))

\* C5: a blank destination raises the error before any connection attempt:
\* once it is reported no Ssm2 was constructed and handle_connect and send_all
\* were never invoked, and an Ssm2 that exists has a non-blank destination.
C5_BlankDestinationRejected ==
    /\ Logged(NoDestination) =>
         /\ ~Called("Ssm2") /\ ~Called("handle_connect") /\ ~Called("send_all")
         /\ session = "none"
    /\ IsBound(ssm_frame, "ssm") =>
         /\ ssm_frame["ssm"].dest # ""
         /\ scp["messaging.destination"] # ""
    /\ (Called("Ssm2") \/ Called("handle_connect") \/ Called("send_all"))
         => ~Logged(NoDestination)

\* C5 witness: run_ssm has returned with the blank destination reported.
C5_Witness ==
    pc = "main_ssm_stopped" /\ Logged(NoDestination)

\* C6 as claimed: a run that reported either configuration error (no broker
\* form fully specified, blank destination) ends with a non-zero exit status.
C6_ConfigurationErrorFatal ==
    (Terminated /\ (Logged(NoBrokerOptions) \/ Logged(NoDestination)))
      => exit_status = Some(1)

\* C6 amended: with no broker form fully specified the process ends with a
\* non-zero exit status; a blank destination is reported as a failure to
\* initialise the SSM, and the run finishes with exit status zero.
C6_OnlyBrokerOptionsFatal ==
    /\ Logged(NoBrokerOptions) =>
         /\ pc = "exited" /\ exit_status = Some(1)
         /\ ~Called("Ssm2")
    /\ Logged(NoDestination) =>
         /\ pc \in {"main_ssm_stopped", "main_finish", "finished"}
         /\ Terminated => exit_status = Some(0)

\* C6 witness: the run has finished after a blank destination was reported.
C6_Witness ==
    pc = "finished" /\ Logged(NoDestination) /\ exit_status = Some(0)

\* C7 as claimed: no Ssm2 session exists with an empty broker list.
C7_NeverEmptyBrokers ==
    IsBound(ssm_frame, "ssm") => Len(ssm_frame["ssm"].brokers) > 0

\* the options of the network lookup
LookupOptions == {"broker.bdii", "broker.use_ssl", "broker.network"}

\* C8: the lookup is tried first; host and port are read only after a lookup
\* option was found absent (never when bdii, use_ssl and network are all
\* present) and then give the one endpoint (host, int(port)); with neither
\* form complete the resolution fails and no session is attempted.
C8_ResolutionOrder ==
    /\ BrokersResolved =>
         /\ IsBound(ssm_frame, "host") <=>
              \E o \in LookupOptions : o \in DOMAIN scp /\ scp[o] = Absent
         /\ IsBound(ssm_frame, "host") <=> ~Called("get_broker_hosts_and_ports")
         /\ IsBound(ssm_frame, "host") =>
              /\ {"broker.host", "broker.port"} \subseteq DOMAIN scp
              /\ scp["broker.host"] # Absent /\ scp["broker.port"] = "61613"
              /\ ssm_frame["brokers"] = << <<scp["broker.host"], 61613>> >>
         /\ ~IsBound(ssm_frame, "host") =>
              /\ LookupOptions \subseteq DOMAIN scp
              /\ \A o \in LookupOptions : scp[o] # Absent
    /\ Logged(NoBrokerOptions) =>
         /\ pc = "exited" /\ ~Called("get_broker_hosts_and_ports")
         /\ ~Called("Ssm2") /\ ~Called("handle_connect") /\ session = "none"

\* C8 witness: the brokers are the single static endpoint.
C8_Witness ==
    /\ pc = "ssm_init"
    /\ IsBound(ssm_frame, "host")
    /\ Len(ssm_frame["brokers"]) = 1

\* the unload reports of a log: the counts of the detail and sync unloads
UnloadReports(l) == SelectSeq(l, LAMBDA e : e.args # << >> /\ e.msg # "Found brokers.")
Unloads(c) == SelectSeq(c, LAMBDA x : x \in {"unload_latest", "unload_gap",
                                             "unload_all", "unload_sync"})

\* C9: after a directory error in the lookup, run_ssm returns without reading
\* host and port, constructing a session or sending; the run ends normally;
\* and no step after run_client changes the unloads made or their reported
\* counts.
C9_LdapErrorSkipsTransport ==
    /\ [](Logged(LdapFailed) =>
            /\ pc \in {"main_ssm_stopped", "main_finish", "finished"}
            /\ ~Called("Ssm2") /\ ~Called("handle_connect")
            /\ ~Called("send_all") /\ session = "none"
            /\ ssm_frame = EmptyFrame
            /\ LastCall = "get_broker_hosts_and_ports"
            /\ Terminated => exit_status = Some(0))
    /\ [][RunClientReturned =>
            /\ UnloadReports(log') = UnloadReports(log)
            /\ Unloads(calls') = Unloads(calls)]_vars

\* C9 witness: the run has finished after the directory error, with an
\* unload and a sync unload of one record each reported.
C9_Witness ==
    /\ pc = "finished"
    /\ Logged(LdapFailed)
    /\ UnloadReports(log) = <<MsgN("Unloaded records in messages.", 1, 1),
                              MsgN("Unloaded sync records in messages.", 1, 1)>>

\* the process ended after run_client had returned
RunClientReturnedBeforeExit == pc = "exited" /\ Called("unload_sync")

\* the process ended by a configuration failure: a configuration error exit,
\* or an exception of a missing or invalid option
ConfigurationFailure ==
    \/ raised \in {"NoOptionError", "NoSectionError", "ValueError", "TypeError"}
    \/ /\ raised = "SystemExit"
       /\ \/ log = << >>
          \/ LastLog = "Error in configuration file"
          \/ /\ LastLog = LOG_BREAK
             /\ Logged("Error during connecting to database: No option")

\* C10 as claimed: only a fatal configuration failure gives a non-zero exit.
C10_OnlyConfigurationFatal ==
    exit_status = Some(1) => ConfigurationFailure

\* C10 amended: a directory error in the broker lookup, an Ssm2Exception, and
\* an invalid table name or store error in the detail unload never end the
\* run themselves: after the first two the run reaches 'Client finished' with
\* status zero, after the last it ends non-zero only by a later failure.  A
\* non-zero exit comes from a configuration failure (an unrecognised
\* interval included), a failed connection test, or a store or directory
\* error outside those handlers.
C10_RecoverableFailures ==
    /\ (Logged(LdapFailed) \/ Logged(SsmFailed)
        \/ Logged("Messages have not been sent."))
         => /\ pc \in {"main_ssm_stopped", "main_finish", "finished"}
            /\ Terminated => (exit_status = Some(0) /\ LastLog = "Client finished")
    /\ ((Logged(InvalidTable) \/ Logged(UnloadFailed)) /\ pc = "exited")
         => /\ raised \in {"ApelDbException", "NoOptionError", "NoSectionError",
                           "ValueError", "TypeError"}
            /\ raised = "ApelDbException" => LastCall = "unload_sync"
            /\ raised # "ApelDbException" => RunClientReturnedBeforeExit
    /\ pc = "finished" => (exit_status = Some(0) /\ raised = "")
    /\ exit_status = Some(1) =>
         \/ ConfigurationFailure
         \/ /\ raised = "SystemExit"
            /\ Logged("Error during connecting to database: ApelDbException")
            /\ LastCall = "test_connection"
         \/ /\ raised = "UnboundLocalError"
            /\ LastLog = "Will not start unloader."
         \/ /\ raised = "ApelDbException"
            /\ LastCall \in {"update_spec", "create_local_jobs", "join_records",
                             "summarise_jobs", "unload_sync"}
         \/ /\ raised = "LDAPError"
            /\ LastCall = "fetch_specint"

\* C10 witness: the run has finished with status zero after an invalid table
\* name in the detail unload and a failed transport session.
C10_Witness ==
    /\ pc = "finished"
    /\ exit_status = Some(0)
    /\ Logged(InvalidTable)
    /\ Logged(SsmFailed)

\* the selection and consolidation calls on the store
StoreCalls == {"join_records", "summarise_jobs", "unload_latest", "unload_gap",
               "unload_all", "unload_sync"}

\* C11 as claimed: a store exception raised by join_records, summarise_jobs,
\* the detail unload or unload_sync does not abort the run: the process never
\* ends by an ApelDbException of one of these calls.
C11_StoreErrorRecoverable ==
    ~(pc = "exited" /\ raised = "ApelDbException" /\ LastCall \in StoreCalls)

\* C12 as claimed: run_ssm is entered only in a run whose unloader was enabled
\* and whose detail and sync unloads both succeeded.
C12_TransportOnlyAfterUnload ==
    InRunSsm =>
      /\ Called("DbUnloader")
      /\ Logged("Unloaded records in messages.")
      /\ Logged("Unloaded sync records in messages.")

\* C12 amended: the transport phase is entered exactly through the [ssm]
\* enabled flag that main reads after run_client has returned: broker
\* resolution and the session exist only after 'Starting SSM.', which is
\* logged only after summarisation and, with an unloader, after its sync
\* unload completed; without it nothing of the transport happens.  Whether
\* the unloader was enabled or its detail unload failed does not decide it.
C12_TransportOnlyIfSsmEnabled ==
    /\ (InRunSsm \/ session # "none" \/ ssm_frame # EmptyFrame
        \/ Called("get_broker_hosts_and_ports") \/ Called("Ssm2")
        \/ Called("handle_connect"))
         => Logged("Starting SSM.")
    /\ Logged("Starting SSM.") =>
         /\ frame = EmptyFrame
         /\ Called("summarise_jobs")
         /\ Called("DbUnloader") =>
              (Count("unload_sync") = 1 /\ Logged("Unloading complete."))
    /\ (pc = "finished" /\ ~Logged("Starting SSM.")) =>
         (~Logged("SSM stopped.") /\ session = "none")

\* C12 witness: a transport session was run to its end in a run whose
\* unloader was disabled.
C12_Witness ==
    /\ session = "Closed"
    /\ ~Called("DbUnloader")
    /\ ~Called("unload_sync")

\* C13: include_vos and exclude_vos are never both non-None, in run_client's
\* locals and in the unloader constructed from them; with an include option
\* present (an exclude option or not) include_vos is its stripped list and
\* exclude_vos is None; exclude_vos is non-None only when the include option
\* is absent, and is then the stripped list of the exclude option.
C13_VoFiltersExclusive ==
    /\ (IsBound(frame, "include_vos") /\ IsBound(frame, "exclude_vos")) =>
         (frame["include_vos"] = None \/ frame["exclude_vos"] = None)
    /\ IsBound(frame, "unloader") =>
         LET u == frame["unloader"]
             inc == frame["ccp"]["unloader.include_vos"]
             exc == frame["ccp"]["unloader.exclude_vos"]
         IN /\ u.include_vos = None \/ u.exclude_vos = None
            /\ u.include_vos = frame["include_vos"]
            /\ u.exclude_vos = frame["exclude_vos"]
            /\ inc.present =>
                 /\ u.exclude_vos = None
                 /\ u.include_vos # None
                 /\ inc.text = <<"a", ",", " ", "b">> =>
                      u.include_vos = Some(<< <<"a">>, <<"b">> >>)
                 /\ inc.text = << >> => u.include_vos = Some(<< << >> >>)
            /\ (~inc.present /\ exc.present) =>
                 /\ u.include_vos = None
                 /\ u.exclude_vos # None
                 /\ exc.text = <<"a", ",", " ", "b">> =>
                      u.exclude_vos = Some(<< <<"a">>, <<"b">> >>)
            /\ (~inc.present /\ ~exc.present) =>
                 (u.include_vos = None /\ u.exclude_vos = None)
            /\ u.exclude_vos # None => ~inc.present

\* C13 witness: an unloader constructed from a configuration with both the
\* include and the exclude option: only the include list is set.
C13_Witness ==
    /\ IsBound(frame, "unloader")
    /\ frame["ccp"]["unloader.include_vos"].present
    /\ frame["ccp"]["unloader.exclude_vos"].present
    /\ frame["unloader"].include_vos = Some(<< <<"a">>, <<"b">> >>)
    /\ frame["unloader"].exclude_vos = None

\* the calls made on the Ssm2 session, in order
TransportCalls == SelectSeq(calls, LAMBDA c : c \in {"handle_connect", "send_all",
                                                     "close_connection"})
SessionOrder == <<"handle_connect", "send_all", "close_connection">>

\* C14: the calls on the session are a prefix of handle_connect, send_all,
\* close_connection (each at most once, in that order); send_all is invoked
\* only on a connected session and close_connection only after send_all
\* returned; the session state follows Unconnected, Connected, Sent, Closed
\* with the calls; and once a failure of the session is reported run_ssm has
\* returned, so that no further connect or send follows.
C14_SessionNoRetry ==
    LET t == TransportCalls
    IN /\ Len(t) <= 3 /\ t = SubSeq(SessionOrder, 1, Len(t))
       /\ session = "none" => t = << >>
       /\ session = "Unconnected" => Len(t) <= 1
       /\ session = "Connected" => Len(t) \in {1, 2}
       /\ session = "Sent" => Len(t) \in {2, 3}
       /\ session = "Closed" => Len(t) = 3
       /\ pc = "ssm_connect" => (t = << >> /\ session = "Unconnected")
       /\ pc = "ssm_send" => (Len(t) = 1 /\ session = "Connected")
       /\ pc = "ssm_close" => (Len(t) = 2 /\ session = "Sent")
       /\ Logged(SsmFailed) =>
            /\ ~InRunSsm /\ ssm_frame = EmptyFrame
            /\ session # "Closed"
            /\ Len(t) >= 1

\* C14 witness: the run has finished after send_all failed on a connected
\* session: one connect, one send, no close, no second attempt.
C14_Witness ==
    /\ pc = "finished"
    /\ Logged(SsmFailed)
    /\ session = "Connected"
    /\ TransportCalls = <<"handle_connect", "send_all">>

\* the phase a collaborator call belongs to: 1 spec update, 2 join,
\* 3 summarise, 4 detail unload, 5 sync unload, 6 broker resolution,
\* 7 transport session; 0 for the connection test and for update_spec, which
\* both the spec updater and the joiner call
PhaseOfCall(c) ==
    CASE c = "fetch_specint" -> 1
      [] c \in {"create_local_jobs", "join_records"} -> 2
      [] c = "summarise_jobs" -> 3
      [] c \in {"DbUnloader", "unload_latest", "unload_gap", "unload_all"} -> 4
      [] c = "unload_sync" -> 5
      [] c = "get_broker_hosts_and_ports" -> 6
      [] c \in {"Ssm2", "handle_connect", "send_all", "close_connection"} -> 7
      [] OTHER -> 0
\* the phase a log message announces, 0 if none
PhaseOfLog(m) ==
    CASE m = "Starting spec updater." -> 1
      [] m = "Starting joiner." -> 2
      [] m = "Starting summariser." -> 3
      [] m = "Starting unloader." -> 4
      [] m = "Unloaded sync records in messages." -> 5
      [] m = "Starting SSM." -> 6
      [] OTHER -> 0
PhasesCalled == {PhaseOfCall(calls[i]) : i \in 1..Len(calls)} \ {0}

\* C15: the calls of the phases occur in the order spec update, join,
\* summarise, detail unload, sync unload, broker resolution, transport
\* session; every phase is announced and entered at most once; update_spec is
\* called before the join only; and while run_ssm runs, run_client has
\* returned: an unloader that was constructed has made its sync unload.
C15_PhaseOrder ==
    /\ \A i, j \in 1..Len(calls) :
         (i < j /\ PhaseOfCall(calls[i]) # 0 /\ PhaseOfCall(calls[j]) # 0)
           => PhaseOfCall(calls[i]) <= PhaseOfCall(calls[j])
    /\ \A i, j \in 1..Len(log) :
         (i < j /\ PhaseOfLog(log[i].msg) # 0 /\ PhaseOfLog(log[j].msg) # 0)
           => PhaseOfLog(log[i].msg) < PhaseOfLog(log[j].msg)
    /\ \A c \in {"fetch_specint", "create_local_jobs", "join_records",
                 "summarise_jobs", "DbUnloader", "unload_sync",
                 "get_broker_hosts_and_ports", "Ssm2"} : Count(c) <= 1
    /\ Count("unload_latest") + Count("unload_gap") + Count("unload_all") <= 1
    /\ \A i, j \in 1..Len(calls) :
         (i < j /\ calls[j] = "update_spec") => PhaseOfCall(calls[i]) <= 1
    /\ (InRunSsm \/ PhasesCalled \cap {6, 7} # {}) =>
         /\ frame = EmptyFrame
         /\ Called("summarise_jobs")
         /\ Called("DbUnloader") => Called("unload_sync")

\* C15 witness: a run in which all seven phases were executed has finished.
C15_Witness ==
    /\ pc = "finished"
    /\ PhasesCalled = 1..7
    /\ session = "Closed"

DetailUnloads == Count("unload_latest") + Count("unload_gap") + Count("unload_all")

\* C17: once a detail unload has failed with an invalid table name or a store
\* error, exactly one of the two warnings is logged, no detail counts are
\* reported or bound, and the sync unload comes next: it has not been made
\* while the run is about to make it, and has been made exactly once in every
\* later state.
C17_FailedDetailUnloadStillSyncs ==
    (Logged(InvalidTable) \/ Logged(UnloadFailed)) =>
      /\ ~(Logged(InvalidTable) /\ Logged(UnloadFailed))
      /\ ~Logged("Unloaded records in messages.")
      /\ DetailUnloads = 1
      /\ IF pc = "rc_sync"
         THEN /\ Count("unload_sync") = 0
              /\ ~IsBound(frame, "msgs") /\ ~IsBound(frame, "recs")
              /\ LastCall \in {"unload_latest", "unload_gap", "unload_all"}
         ELSE /\ Count("unload_sync") = 1
              /\ pc \notin {"rc_unloader_start", "rc_unload"}

\* C17 witness: after an invalid table name the sync unload was made once and
\* its counts were reported.
C17_Witness ==
    /\ Logged(InvalidTable)
    /\ Count("unload_sync") = 1
    /\ Logged("Unloaded sync records in messages.")
    /\ ~Logged("Unloaded records in messages.")

\* the store operations other than the connection test
StoreOperations == StoreCalls \cup {"update_spec", "create_local_jobs"}
\* the collaborator calls of a run that ended at the connection test or before
UpToConnectionTest == {<< >>, <<"ApelDb", "test_connection">>}

\* C18: a store operation other than test_connection is made only after
\* 'Connected.' was logged, in a run without a configuration error; while the
\* configuration is validated no collaborator is called; and a run that
\* reported a configuration error or a failed connection, or ended without
\* being connected, ended with a non-zero status before any phase started.
C18_NoStoreOperationBeforeConnected ==
    /\ (\E c \in StoreOperations : Called(c)) =>
         /\ Logged("Connected.")
         /\ ~Logged("Error in configuration file")
         /\ SubSeq(calls, 1, 2) = <<"ApelDb", "test_connection">>
    /\ pc \in {"main_logging", "rc_flags", "rc_spec", "rc_unloader", "rc_connect"}
         => (calls = << >> /\ ~Logged("Connected."))
    /\ (\/ Logged("Error in configuration file")
        \/ Logged("Error during connecting to database: No option")
        \/ Logged("Error during connecting to database: ApelDbException")
        \/ (pc = "exited" /\ ~Logged("Connected."))) =>
         /\ pc = "exited" /\ exit_status = Some(1)
         /\ calls \in UpToConnectionTest
         /\ PhasesCalled = {}
         /\ ~Logged("Connected.")
         /\ \A i \in 1..Len(log) : PhaseOfLog(log[i].msg) = 0

\* C18 witness: the process has ended after a failed connection test, the
\* test being the only operation on the store.
C18_Witness ==
    /\ pc = "exited"
    /\ Logged("Error during connecting to database: ApelDbException")
    /\ calls = <<"ApelDb", "test_connection">>

\* C19 as claimed: a run that a missing or invalid option of the client
\* configuration ended (an exception of ConfigParser or of a conversion,
\* before the sender configuration is in use) has made no operation on the
\* store other than the connection test.
C19_OptionsReadBeforePhases ==
    (/\ pc = "exited"
     /\ raised \in {"NoOptionError", "NoSectionError", "ValueError"}
     /\ ~Logged("Starting SSM."))
      => ~(\E c \in StoreOperations : Called(c))

\* the spec updater reported a directory server that is down or has no such
\* object
SpecUpdaterFailed ==
    Logged("Failed to fetch spec info") \/ Logged("Found no spec values in BDII")

\* C20: a failure of the spec updater never ends the process; once it is
\* reported the updater has made no update_spec (the one update_spec there
\* may be is the joiner's, for local jobs) and does not finish; the run is
\* past the updater; and the later phases run as configured: the joiner if
\* and only if it is enabled, the summariser always, the unloader's sync
\* unload if an unloader was constructed.
C20_SpecUpdaterFailureConfined ==
    /\ raised \notin {"SERVER_DOWN", "NO_SUCH_OBJECT"}
    /\ SpecUpdaterFailed =>
         /\ ~Logged("Spec updater finished.")
         /\ Count("fetch_specint") = 1
         /\ Count("update_spec") <= 1
         /\ Called("update_spec") =>
              Logged("Updating benchmark information for local jobs:")
         /\ pc \notin {"rc_spec_updater", "rc_connect"}
         /\ pc = "exited" => LastCall # "fetch_specint"
         /\ pc \in {"rc_summarise", "rc_unloader_start", "rc_unload", "rc_sync"}
              => (frame["joiner_enabled"] <=> Called("join_records"))
         /\ (pc \in {"rc_unloader_start", "rc_unload", "rc_sync"}
             \/ RunClientReturned) => Count("summarise_jobs") = 1
         /\ pc \in {"rc_unload", "rc_sync"} => frame["unloader_enabled"]
         /\ (RunClientReturned /\ Called("DbUnloader"))
              => Count("unload_sync") = 1

\* C20 witness: after a failed spec updater the run has joined, summarised,
\* unloaded and sent, and finished.
C20_Witness ==
    /\ pc = "finished"
    /\ SpecUpdaterFailed
    /\ Called("join_records")
    /\ Called("summarise_jobs")
    /\ DetailUnloads = 1
    /\ Count("unload_sync") = 1
    /\ session = "Closed"

====
